---- MODULE Spec2Model ----
(***************************************************************************)
(* Estimation and flagging engine of clove_dish_analyzer.py.               *)
(*                                                                         *)
(* Number representation.  The program computes with binary floating       *)
(* point; the model computes with exact decimal fixed point:               *)
(*   - quantities are whole grams;                                         *)
(*   - emission factors are tenths of kg CO2e per kg (1.1 is 11);          *)
(*   - costs per gram are in 1/10000 EUR (0.01 is 100);                    *)
(*   - the accumulators of estimate() are therefore in 1/10000 kg and      *)
(*     1/10000 EUR;                                                        *)
(*   - selling prices are in 1/1000 EUR (10.00 is 10000);                  *)
(*   - every value rounded to 2 decimals is an integer count of 1/100.     *)
(* round(x, 2) is round-half-to-even on the exact value, so the model      *)
(* says nothing about the last-bit error of binary floating point.  A      *)
(* float that is inf, -inf or NaN is a record whose k field says so.       *)
(*                                                                         *)
(* A text is a sequence of one-character strings, so that str.strip() is   *)
(* computed rather than assumed.  A spreadsheet cell that may be empty     *)
(* (NaN/None) is <<>> when empty and <<v>> when it holds v.                *)
(***************************************************************************)
EXTENDS Integers, Sequences, FiniteSets, TLC

VARIABLES price_file, dish_file, ingredient_price_map, price_msg, pc, df,
          row_idx, i, total_emission, total_cost, results,
          colCo2, colCost, colMargin, colProfit, colCo2pp, colFlag

vars == <<price_file, dish_file, ingredient_price_map, price_msg, pc, df,
          row_idx, i, total_emission, total_cost, results,
          colCo2, colCost, colMargin, colProfit, colCo2pp, colFlag>>

----------------------------------------------------------------------------
(* Optional cells: pd.notna / pd.isna                                      *)

NA == <<>>
Some(v) == <<v>>
notna(x) == x # NA
isna(x) == x = NA
Val(x) == x[1]

----------------------------------------------------------------------------
(* Texts and str.strip()                                                   *)

Whitespace == {" "}

RECURSIVE lstrip(_)
lstrip(s) == IF s # <<>> /\ Head(s) \in Whitespace THEN lstrip(Tail(s)) ELSE s

RECURSIVE rstrip(_)
rstrip(s) ==
  IF s # <<>> /\ s[Len(s)] \in Whitespace
  THEN rstrip(SubSeq(s, 1, Len(s) - 1))
  ELSE s

(* variant: only the leading blanks are removed *)
strip_LeftOnly(s) == lstrip(s)

strip(s) == rstrip(lstrip(s))

----------------------------------------------------------------------------
(* The static carbon reference table, factors in tenths of kg CO2e per kg  *)

CarbonTable ==
  {
     <<<<"P","a","s","t","a">>, 11>>,
     <<<<"B","e","e","f"," ","M","i","n","c","e">>, 270>>,
     <<<<"T","o","m","a","t","o"," ","S","a","u","c","e">>, 25>>,
     <<<<"C","h","i","c","k","e","n"," ","B","r","e","a","s","t">>, 69>>,
     <<<<"L","e","t","t","u","c","e">>, 8>>,
     <<<<"C","u","c","u","m","b","e","r">>, 4>>,
     <<<<"C","h","i","c","k","p","e","a","s">>, 9>>,
     <<<<"T","o","m","a","t","o">>, 14>>,
     <<<<"C","o","c","o","n","u","t"," ","M","i","l","k">>, 29>>,
     <<<<"W","h","i","t","e"," ","F","i","s","h">>, 55>>,
     <<<<"B","u","n">>, 12>>,
     <<<<"T","o","r","t","i","l","l","a">>, 10>>,
     <<<<"C","h","e","e","s","e">>, 135>>,
     <<<<"A","r","b","o","r","i","o"," ","R","i","c","e">>, 18>>,
     <<<<"M","u","s","h","r","o","o","m","s">>, 12>>,
     <<<<"P","a","r","m","e","s","a","n">>, 100>>,
     <<<<"Y","o","g","u","r","t">>, 21>>,
     <<<<"Q","u","i","n","o","a">>, 15>>,
     <<<<"A","v","o","c","a","d","o">>, 22>>,
     <<<<"C","o","u","s","c","o","u","s">>, 17>>,
     <<<<"T","o","f","u">>, 19>>,
     <<<<"B","r","o","c","c","o","l","i">>, 6>>,
     <<<<"S","o","y"," ","S","a","u","c","e">>, 32>>
  }

carbon_data ==
  [k \in {p[1] : p \in CarbonTable} |-> (CHOOSE p \in CarbonTable : p[1] = k)[2]]

(* dict.get(key, default) *)
DictGet(d, k, default) == IF k \in DOMAIN d THEN d[k] ELSE default

----------------------------------------------------------------------------
(* Floats: finite values and the non-finite results of a division by zero  *)

Fin(v) == [k |-> "fin", v |-> v]
PosInf == [k |-> "inf", v |-> 0]
NegInf == [k |-> "-inf", v |-> 0]
NaN == [k |-> "nan", v |-> 0]

(* x < c for a float x and a finite c; any comparison with NaN is false    *)
FloatLt(x, c) == \/ x.k = "-inf"
                 \/ x.k = "fin" /\ x.v < c

(* n / d for d > 0, rounded to the nearest integer, ties to even *)
RoundHalfEvenPos(n, d) ==
  LET q == n \div d
      rem == n - q * d
  IN IF 2 * rem < d THEN q
     ELSE IF 2 * rem > d THEN q + 1
     ELSE IF q % 2 = 0 THEN q ELSE q + 1

(* variant: the digits after the second decimal are cut off *)
Round2_Truncate(x) == x \div 100

(* round(x, 2) of an accumulator held in 1/10000: the count of 1/100 *)
Round2(x) == RoundHalfEvenPos(x, 100)

(* Series.round(2) of an amount held in 1/1000: the count of 1/100 *)
SeriesRound2(x) == RoundHalfEvenPos(x, 10)

(* variant: a zero divisor is guarded and gives 0 *)
SeriesDivRound_ZeroGuarded(n, d, scale) ==
  IF d = 0
  THEN Fin(0)
  ELSE IF d > 0
  THEN Fin(RoundHalfEvenPos(n * scale, d))
  ELSE Fin(RoundHalfEvenPos((0 - n) * scale, 0 - d))

(* (n / d) scaled by scale and rounded to an integer; a zero divisor gives *)
(* inf, -inf or NaN as the element-wise float division of a Series does    *)
SeriesDivRound(n, d, scale) ==
  IF d = 0
  THEN (IF n > 0 THEN PosInf ELSE IF n < 0 THEN NegInf ELSE NaN)
  ELSE IF d > 0
  THEN Fin(RoundHalfEvenPos(n * scale, d))
  ELSE Fin(RoundHalfEvenPos((0 - n) * scale, 0 - d))

----------------------------------------------------------------------------
(* Inputs: the uploaded price file and the uploaded dish spreadsheet       *)

Pasta == <<"P","a","s","t","a">>
PastaPadded == <<" ","P","a","s","t","a"," ">>
PastaLower == <<"p","a","s","t","a">>
Bun == <<"B","u","n">>
BunPadded == <<" ","B","u","n">>
Parmesan == <<"P","a","r","m","e","s","a","n">>
Seitan == <<"S","e","i","t","a","n">>

NoFile == <<>>

(* A price workbook: whether pd.read_excel can read it, and its two        *)
(* columns, each absent (NA) or a sequence of cells.                       *)
PriceBook(readable, ingCol, priceCol) ==
  [readable |-> readable, Ingredient |-> ingCol, Price |-> priceCol]

GoodPriceBook ==
  PriceBook(TRUE, Some(<<Pasta, BunPadded, Pasta>>), Some(<<300, 50, 100>>))
UnreadablePriceBook ==
  PriceBook(FALSE, Some(<<Pasta, BunPadded, Pasta>>), Some(<<300, 50, 100>>))
NoIngredientColumn ==
  PriceBook(TRUE, NA, Some(<<300, 50, 100>>))
NoPriceColumn ==
  PriceBook(TRUE, Some(<<Pasta, BunPadded, Pasta>>), NA)

MalformedPriceBooks == {UnreadablePriceBook, NoIngredientColumn, NoPriceColumn}

Slot(ing, qty, cost) == [ing |-> ing, qty |-> qty, cost |-> cost]
Row(sp, s1, s2, s3) == [sp |-> sp, slots |-> <<s1, s2, s3>>]

(* The slots a row is built from: empty; priced by the reference; padded  *)
(* name; explicit cost beside a reference price; name in another case;     *)
(* name whose padded form is a price key; unknown name with a cost; a      *)
(* quantity missing beside a cost; a name missing; a negative quantity; a  *)
(* negative cost.                                                          *)
SlotSet ==
  { Slot(NA, NA, NA),
    Slot(Some(Pasta), Some(200), NA),
    Slot(Some(PastaPadded), Some(130), NA),
    Slot(Some(Pasta), Some(200), Some(200)),
    Slot(Some(PastaLower), Some(130), NA),
    Slot(Some(BunPadded), Some(130), NA),
    Slot(Some(Seitan), Some(130), Some(125)),
    Slot(Some(Parmesan), Some(300), NA),
    Slot(Some(Pasta), NA, Some(200)),
    Slot(NA, Some(200), Some(200)),
    Slot(Some(Pasta), Some(0 - 100), NA),
    Slot(Some(Pasta), Some(200), Some(0 - 200)) }

SellingPrices == {0, 9995, 10000}

Rows == {Row(sp, s1, s2, s3) : sp \in SellingPrices, s1 \in SlotSet,
                               s2 \in SlotSet, s3 \in SlotSet}

(* Spreadsheets of several rows are built from a few rows: an ordinary    *)
(* dish, dishes with selling price 0 (with and without cost), a dish whose *)
(* cost equals its price, a dish of unknown and missing cells.             *)
EmptySlot == Slot(NA, NA, NA)
BatchRows ==
  { Row(10000, Slot(Some(Pasta), Some(200), NA), EmptySlot, EmptySlot),
    Row(0, Slot(Some(Pasta), Some(200), Some(200)), EmptySlot, EmptySlot),
    Row(0, Slot(Some(Parmesan), Some(300), NA), EmptySlot, EmptySlot),
    Row(0, EmptySlot, EmptySlot, EmptySlot),
    Row(10000, Slot(Some(Pasta), Some(200), Some(200)),
               Slot(Some(Pasta), Some(200), Some(200)),
               Slot(Some(Pasta), Some(200), NA)),
    Row(9995, Slot(Some(PastaLower), Some(130), NA),
              Slot(Some(Pasta), NA, Some(200)),
              Slot(Some(Parmesan), Some(300), NA)) }

MaxRows == 2

(* Pairs of rows that differ in the quantity of one slot only *)
MonoQtys == {0, 300}
WithQty(r, s, q) == [r EXCEPT !.slots[s].qty = Some(q)]
MonoTriples ==
  { t \in {x \in Rows : x.sp = 10000} \X (1..3) \X MonoQtys :
      notna(t[1].slots[t[2]].qty) /\ Val(t[1].slots[t[2]].qty) < t[3] }
MonoPairs == { <<t[1], WithQty(t[1], t[2], t[3])>> : t \in MonoTriples }

Dfs == {<<r>> : r \in Rows}
       \cup UNION {[1..n -> BatchRows] : n \in 2..MaxRows}
       \cup MonoPairs

DishFiles == {NoFile} \cup {Some(d) : d \in Dfs}

(* With a malformed price file the dish spreadsheets are the one-row ones  *)
(* at selling price 10.00 and the several-row ones.                        *)
DishFilesBesideMalformed ==
  {f \in DishFiles : f # NoFile => (Len(Val(f)) = 1 => Val(f)[1].sp = 10000)
                                    /\ Val(f) \notin MonoPairs}

Inputs ==
  ({NoFile, Some(GoodPriceBook)} \X DishFiles)
  \cup ({Some(b) : b \in MalformedPriceBooks} \X DishFilesBesideMalformed)

----------------------------------------------------------------------------
(* Price file processing, lines 99-107                                     *)

(* dict(zip(keys, values)): a later row with the same key replaces an      *)
(* earlier one; zip stops at the shorter column                            *)
Min(a, b) == IF a < b THEN a ELSE b
DictZip(keys, values) ==
  LET n == Min(Len(keys), Len(values))
      Last(k) == CHOOSE j \in 1..n : keys[j] = k /\ \A h \in (j + 1)..n : keys[h] # k
  IN [k \in {keys[j] : j \in 1..n} |-> values[Last(k)]]

EmptyMap == [k \in {} |-> 0]

(* TRUE iff the try block of lines 102-105 raises *)
PriceBookRaises(book) ==
  \/ ~book.readable
  \/ isna(book.Ingredient)
  \/ isna(book.Price)

(* variant: the keys are stored before the price column is looked up *)
LoadPriceMap_KeysKept(file, before) ==
  IF isna(file) THEN before
  ELSE IF ~Val(file).readable \/ isna(Val(file).Ingredient) THEN before
  ELSE IF isna(Val(file).Price)
  THEN [k \in {Val(Val(file).Ingredient)[j] : j \in DOMAIN Val(Val(file).Ingredient)} |-> 0]
  ELSE DictZip(Val(Val(file).Ingredient), Val(Val(file).Price))

(* the value of ingredient_price_map after lines 101-107, given its value  *)
(* before them                                                             *)
LoadPriceMap(file, before) ==
  IF isna(file) THEN before
  ELSE IF PriceBookRaises(Val(file)) THEN before
  ELSE DictZip(Val(Val(file).Ingredient), Val(Val(file).Price))

ProcessPriceFile ==
  /\ pc = "price"
  /\ ingredient_price_map' = LoadPriceMap(price_file, ingredient_price_map)
  /\ price_msg' = IF isna(price_file) THEN "none"
                  ELSE IF PriceBookRaises(Val(price_file)) THEN "error"
                  ELSE "success"
  /\ pc' = "dish"
  /\ UNCHANGED <<price_file, dish_file, df, row_idx, i, total_emission,
                 total_cost, results, colCo2, colCost, colMargin, colProfit,
                 colCo2pp, colFlag>>

----------------------------------------------------------------------------
(* Dish file loading, lines 206-208 and the else branch 384-388            *)

LoadDishFile ==
  /\ pc = "dish"
  /\ notna(dish_file)
  /\ df' = Val(dish_file)
  /\ row_idx' = 1
  /\ pc' = IF Len(Val(dish_file)) >= 1 THEN "enter" ELSE "unpack_co2"
  /\ UNCHANGED <<price_file, dish_file, ingredient_price_map, price_msg, i,
                 total_emission, total_cost, results, colCo2, colCost,
                 colMargin, colProfit, colCo2pp, colFlag>>

NoDishFile ==
  /\ pc = "dish"
  /\ isna(dish_file)
  /\ pc' = "idle"
  /\ UNCHANGED <<price_file, dish_file, ingredient_price_map, price_msg, df,
                 row_idx, i, total_emission, total_cost, results, colCo2,
                 colCost, colMargin, colProfit, colCo2pp, colFlag>>

----------------------------------------------------------------------------
(* estimate(row), lines 212-228, called by df.apply for each row in order  *)

EstimateEnter ==
  /\ pc = "enter"
  /\ total_emission' = 0
  /\ total_cost' = 0
  /\ i' = 1
  /\ pc' = "slot"
  /\ UNCHANGED <<price_file, dish_file, ingredient_price_map, price_msg, df,
                 row_idx, results, colCo2, colCost, colMargin, colProfit,
                 colCo2pp, colFlag>>

(* line 219 *)
SlotActive(slot) == notna(slot.ing) /\ notna(slot.qty)

(* lines 221-222: the emission an active slot adds, in 1/10000 kg *)
SlotEmission(slot) ==
  Val(slot.qty) * DictGet(carbon_data, strip(Val(slot.ing)), 0)

(* variant: the price reference is consulted first *)
EffectiveCost_ReferenceFirst(slot, price_map) ==
  IF strip(Val(slot.ing)) \in DOMAIN price_map
  THEN Some(price_map[strip(Val(slot.ing))])
  ELSE slot.cost

(* lines 224-225: cost_per_g after the fallback to the price reference *)
EffectiveCost(slot, price_map) ==
  IF isna(slot.cost) /\ strip(Val(slot.ing)) \in DOMAIN price_map
  THEN Some(price_map[strip(Val(slot.ing))])
  ELSE slot.cost

(* variant: an ingredient unknown to the carbon table is not costed *)
SlotCost_KnownIngredientsOnly(slot, price_map) ==
  LET cost_per_g == EffectiveCost(slot, price_map)
  IN IF notna(cost_per_g) /\ strip(Val(slot.ing)) \in DOMAIN carbon_data
     THEN Val(slot.qty) * Val(cost_per_g) ELSE 0

(* variant: the cost of a slot is taken off the total *)
SlotCost_Subtracted(slot, price_map) ==
  LET cost_per_g == EffectiveCost(slot, price_map)
  IN IF notna(cost_per_g) THEN 0 - Val(slot.qty) * Val(cost_per_g) ELSE 0

(* lines 226-227: the cost an active slot adds, in 1/10000 EUR *)
SlotCost(slot, price_map) ==
  LET cost_per_g == EffectiveCost(slot, price_map)
  IN IF notna(cost_per_g) THEN Val(slot.qty) * Val(cost_per_g) ELSE 0

CurrentSlot == df[row_idx].slots[i]

(* variant: line 219 tests the quantity only *)
EstimateSlot_QuantityOnly ==
  /\ pc = "slot"
  /\ i <= 3
  /\ IF notna(CurrentSlot.qty)
     THEN /\ total_emission' = total_emission +
               (IF notna(CurrentSlot.ing) THEN SlotEmission(CurrentSlot) ELSE 0)
          /\ total_cost' = total_cost +
               (IF notna(CurrentSlot.ing)
                THEN SlotCost(CurrentSlot, ingredient_price_map)
                ELSE IF notna(CurrentSlot.cost)
                THEN Val(CurrentSlot.qty) * Val(CurrentSlot.cost) ELSE 0)
     ELSE UNCHANGED <<total_emission, total_cost>>
  /\ i' = i + 1
  /\ UNCHANGED <<price_file, dish_file, ingredient_price_map, price_msg, pc,
                 df, row_idx, results, colCo2, colCost, colMargin, colProfit,
                 colCo2pp, colFlag>>

EstimateSlot ==
  /\ pc = "slot"
  /\ i <= 3
  /\ IF SlotActive(CurrentSlot)
     THEN /\ total_emission' = total_emission + SlotEmission(CurrentSlot)
          /\ total_cost' = total_cost + SlotCost(CurrentSlot, ingredient_price_map)
     ELSE UNCHANGED <<total_emission, total_cost>>
  /\ i' = i + 1
  /\ UNCHANGED <<price_file, dish_file, ingredient_price_map, price_msg, pc,
                 df, row_idx, results, colCo2, colCost, colMargin, colProfit,
                 colCo2pp, colFlag>>

(* line 228, and df.apply moving to the next row *)
EstimateReturn ==
  /\ pc = "slot"
  /\ i > 3
  /\ results' = Append(results, <<Round2(total_emission), Round2(total_cost)>>)
  /\ IF row_idx < Len(df)
     THEN row_idx' = row_idx + 1 /\ pc' = "enter"
     ELSE row_idx' = row_idx /\ pc' = "unpack_co2"
  /\ UNCHANGED <<price_file, dish_file, ingredient_price_map, price_msg, df,
                 i, total_emission, total_cost, colCo2, colCost, colMargin,
                 colProfit, colCo2pp, colFlag>>

----------------------------------------------------------------------------
(* Derived columns and flags, lines 231-238; every statement works on the  *)
(* whole column                                                            *)

RowIds == 1..Len(df)

UnpackCo2 ==
  /\ pc = "unpack_co2"
  /\ colCo2' = [k \in RowIds |-> results[k][1]]
  /\ pc' = "unpack_cost"
  /\ UNCHANGED <<price_file, dish_file, ingredient_price_map, price_msg, df,
                 row_idx, i, total_emission, total_cost, results, colCost,
                 colMargin, colProfit, colCo2pp, colFlag>>

UnpackCost ==
  /\ pc = "unpack_cost"
  /\ colCost' = [k \in RowIds |-> results[k][2]]
  /\ pc' = "margin"
  /\ UNCHANGED <<price_file, dish_file, ingredient_price_map, price_msg, df,
                 row_idx, i, total_emission, total_cost, results, colCo2,
                 colMargin, colProfit, colCo2pp, colFlag>>

(* line 233: margin in 1/100 of a percent, from the selling price in       *)
(* 1/1000 EUR and the total cost in 1/100 EUR                              *)
MarginOf(sp, cost) == SeriesDivRound(sp - 10 * cost, sp, 10000)

(* variant: the operands of the subtraction are swapped *)
ProfitOf_Reversed(sp, cost) == SeriesRound2(10 * cost - sp)

(* line 234: profit in 1/100 EUR *)
ProfitOf(sp, cost) == SeriesRound2(sp - 10 * cost)

(* line 235: kg CO2e per EUR of profit, in 1/100 *)
Co2PerProfitOf(co2, profit) == SeriesDivRound(co2, profit, 100)

Margin ==
  /\ pc = "margin"
  /\ colMargin' = [k \in RowIds |-> MarginOf(df[k].sp, colCost[k])]
  /\ pc' = "profit"
  /\ UNCHANGED <<price_file, dish_file, ingredient_price_map, price_msg, df,
                 row_idx, i, total_emission, total_cost, results, colCo2,
                 colCost, colProfit, colCo2pp, colFlag>>

Profit ==
  /\ pc = "profit"
  /\ colProfit' = [k \in RowIds |-> ProfitOf(df[k].sp, colCost[k])]
  /\ pc' = "co2pp"
  /\ UNCHANGED <<price_file, dish_file, ingredient_price_map, price_msg, df,
                 row_idx, i, total_emission, total_cost, results, colCo2,
                 colCost, colMargin, colCo2pp, colFlag>>

Co2PerProfit ==
  /\ pc = "co2pp"
  /\ colCo2pp' = [k \in RowIds |-> Co2PerProfitOf(colCo2[k], colProfit[k])]
  /\ pc' = "flag_init"
  /\ UNCHANGED <<price_file, dish_file, ingredient_price_map, price_msg, df,
                 row_idx, i, total_emission, total_cost, results, colCo2,
                 colCost, colMargin, colProfit, colFlag>>

(* policy thresholds of lines 237-238: 60 percent in 1/100 percent, 3 kg   *)
(* in 1/100 kg                                                             *)
LowMarginThreshold == 6000
HighCo2Threshold == 300

LOW_MARGIN == "LOW_MARGIN"
HIGH_CO2 == "HIGH_CO2"

(* variant: the margin threshold is inclusive *)
LowMarginMask_Inclusive(margin) == FloatLt(margin, LowMarginThreshold + 1)

(* the mask of line 237 and the mask of line 238 *)
LowMarginMask(margin) == FloatLt(margin, LowMarginThreshold)
HighCo2Mask(co2) == co2 > HighCo2Threshold

(* line 236: the Flag text starts empty; a flag text is the sequence of    *)
(* the labels appended to it                                               *)
FlagInit ==
  /\ pc = "flag_init"
  /\ colFlag' = [k \in RowIds |-> <<>>]
  /\ pc' = "flag_margin"
  /\ UNCHANGED <<price_file, dish_file, ingredient_price_map, price_msg, df,
                 row_idx, i, total_emission, total_cost, results, colCo2,
                 colCost, colMargin, colProfit, colCo2pp>>

FlagLowMargin ==
  /\ pc = "flag_margin"
  /\ colFlag' = [k \in RowIds |->
                   IF LowMarginMask(colMargin[k])
                   THEN Append(colFlag[k], LOW_MARGIN) ELSE colFlag[k]]
  /\ pc' = "flag_co2"
  /\ UNCHANGED <<price_file, dish_file, ingredient_price_map, price_msg, df,
                 row_idx, i, total_emission, total_cost, results, colCo2,
                 colCost, colMargin, colProfit, colCo2pp>>

FlagHighCo2 ==
  /\ pc = "flag_co2"
  /\ colFlag' = [k \in RowIds |->
                   IF HighCo2Mask(colCo2[k])
                   THEN Append(colFlag[k], HIGH_CO2) ELSE colFlag[k]]
  /\ pc' = "done"
  /\ UNCHANGED <<price_file, dish_file, ingredient_price_map, price_msg, df,
                 row_idx, i, total_emission, total_cost, results, colCo2,
                 colCost, colMargin, colProfit, colCo2pp>>

----------------------------------------------------------------------------

Init ==
  /\ \E input \in Inputs : price_file = input[1] /\ dish_file = input[2]
  /\ ingredient_price_map = EmptyMap
  /\ price_msg = "none"
  /\ pc = "price"
  /\ df = <<>>
  /\ row_idx = 0
  /\ i = 0
  /\ total_emission = 0
  /\ total_cost = 0
  /\ results = <<>>
  /\ colCo2 = <<>>
  /\ colCost = <<>>
  /\ colMargin = <<>>
  /\ colProfit = <<>>
  /\ colCo2pp = <<>>
  /\ colFlag = <<>>

Next ==
  \/ ProcessPriceFile
  \/ LoadDishFile
  \/ NoDishFile
  \/ EstimateEnter
  \/ EstimateSlot
  \/ EstimateReturn
  \/ UnpackCo2
  \/ UnpackCost
  \/ Margin
  \/ Profit
  \/ Co2PerProfit
  \/ FlagInit
  \/ FlagLowMargin
  \/ FlagHighCo2

Spec == Init /\ [][Next]_vars

----------------------------------------------------------------------------
(* Vocabulary of the properties: what the specification calls an active    *)
(* slot, a trimmed name, a resolved cost and a contribution, stated        *)
(* directly rather than through the operators of estimate                  *)

Abs(x) == IF x < 0 THEN 0 - x ELSE x

InLoopBody == pc = "slot" /\ i <= 3

Active(slot) == slot.ing # NA /\ slot.qty # NA

NoEdgeSpace(t) == t = <<>> \/ (t[1] # " " /\ t[Len(t)] # " ")
Slice(s, a, b) == [j \in 1..(b - a + 1) |-> s[a + j - 1]]

(* the name without its leading and trailing blanks: the part from a to b  *)
(* that has no blank at either end, all before a and after b being blank   *)
Trimmed(name) ==
  LET cut == CHOOSE c \in {<<a, b>> : a \in 1..(Len(name) + 1), b \in 0..Len(name)} :
               /\ c[1] <= c[2] + 1
               /\ NoEdgeSpace(Slice(name, c[1], c[2]))
               /\ \A j \in 1..(c[1] - 1) : name[j] = " "
               /\ \A j \in (c[2] + 1)..Len(name) : name[j] = " "
  IN Slice(name, cut[1], cut[2])

Factor(slot) ==
  IF Trimmed(Val(slot.ing)) \in DOMAIN carbon_data
  THEN carbon_data[Trimmed(Val(slot.ing))] ELSE 0

HasReferencePrice(slot) == Trimmed(Val(slot.ing)) \in DOMAIN ingredient_price_map
ReferencePrice(slot) == ingredient_price_map[Trimmed(Val(slot.ing))]

(* the emission and the cost the specification gives a slot *)
EmissionShare(slot) ==
  IF Active(slot) THEN Val(slot.qty) * Factor(slot) ELSE 0
CostShare(slot) ==
  IF ~Active(slot) THEN 0
  ELSE IF slot.cost # NA THEN Val(slot.qty) * Val(slot.cost)
  ELSE IF HasReferencePrice(slot) THEN Val(slot.qty) * ReferencePrice(slot)
  ELSE 0

RECURSIVE SumEmission(_, _)
SumEmission(row, n) ==
  IF n = 0 THEN 0 ELSE SumEmission(row, n - 1) + EmissionShare(row.slots[n])
RECURSIVE SumCost(_, _)
SumCost(row, n) ==
  IF n = 0 THEN 0 ELSE SumCost(row, n - 1) + CostShare(row.slots[n])

(* c hundredths is a 2-decimal rounding of x ten-thousandths *)
IsRounding2(c, x) == Abs(100 * c - x) <= 50

PreviousSlot == df[row_idx].slots[i - 1]

----------------------------------------------------------------------------
(* C1: price precedence.  Whenever estimate processes an active slot that  *)
(* has an explicit cost per gram, total_cost grows by exactly quantity     *)
(* times that explicit cost, whatever the price reference holds for the    *)
(* trimmed name; the reference price is added only when the explicit cost  *)
(* is missing.                                                             *)
C1_PricePrecedence ==
  [][ (InLoopBody /\ Active(CurrentSlot)) =>
        /\ CurrentSlot.cost # NA =>
             total_cost' = total_cost + Val(CurrentSlot.qty) * Val(CurrentSlot.cost)
        /\ (CurrentSlot.cost = NA /\ HasReferencePrice(CurrentSlot)) =>
             total_cost' = total_cost + Val(CurrentSlot.qty) * ReferencePrice(CurrentSlot) ]_vars

(* the first slot had an explicit cost and a different reference price,    *)
(* and has been processed                                                  *)
C1_Witness ==
  /\ pc = "slot" /\ i = 2
  /\ Active(PreviousSlot) /\ PreviousSlot.cost # NA
  /\ HasReferencePrice(PreviousSlot)
  /\ ReferencePrice(PreviousSlot) # Val(PreviousSlot.cost)
  /\ total_cost = Val(PreviousSlot.qty) * Val(PreviousSlot.cost)
  /\ total_cost # 0

----------------------------------------------------------------------------
(* C2: estimate returns the 2-decimal roundings of the sum over the active *)
(* slots of quantity / 1000 * factor and of the sum over the active slots  *)
(* with a resolved cost of quantity * cost per gram; the slots are visited *)
(* in the order 1, 2, 3 and both accumulators start at 0 for each dish.    *)
(* Pasta 200 g at factor 1.1 and reference price 0.01 gives 0.22 and 2.00. *)
PastaBowl ==
  Row(10000, Slot(Some(Pasta), Some(200), NA), EmptySlot, EmptySlot)

C2_EstimateSums ==
  /\ pc = "slot" =>
       /\ total_emission = SumEmission(df[row_idx], i - 1)
       /\ total_cost = SumCost(df[row_idx], i - 1)
  /\ \A k \in 1..Len(results) :
       /\ IsRounding2(results[k][1], SumEmission(df[k], 3))
       /\ IsRounding2(results[k][2], SumCost(df[k], 3))
       /\ (df[k] = PastaBowl /\ price_file = Some(GoodPriceBook))
            => results[k] = <<22, 200>>

(* a second row has been estimated after a first one with non-zero sums,   *)
(* and a sum that is not a whole number of hundredths has been rounded     *)
C2_Witness ==
  /\ Len(results) = 2
  /\ SumCost(df[1], 3) # 0 /\ SumEmission(df[1], 3) # 0
  /\ SumEmission(df[2], 3) % 100 > 50
  /\ results[2][1] * 100 > SumEmission(df[2], 3)

----------------------------------------------------------------------------
(* C3: a slot whose ingredient name is missing or whose quantity is        *)
(* missing leaves total_emission and total_cost unchanged, whatever its    *)
(* explicit cost and whatever the reference tables hold.                   *)
C3_InactiveSlotSkipped ==
  [][ (InLoopBody /\ (CurrentSlot.ing = NA \/ CurrentSlot.qty = NA)) =>
        /\ total_emission' = total_emission
        /\ total_cost' = total_cost ]_vars

(* a slot with an explicit cost and a known, priced name but no quantity   *)
(* has been passed, after a slot that did contribute                       *)
C3_Witness ==
  /\ pc = "slot" /\ i = 3
  /\ PreviousSlot.qty = NA /\ PreviousSlot.cost # NA /\ PreviousSlot.ing # NA
  /\ HasReferencePrice(PreviousSlot)
  /\ total_cost = CostShare(df[row_idx].slots[1]) /\ total_cost # 0
  /\ total_emission = EmissionShare(df[row_idx].slots[1]) /\ total_emission # 0

----------------------------------------------------------------------------
(* C4: cost and emission are resolved independently.  An active slot with  *)
(* no explicit cost and no reference price adds 0 to total_cost and still  *)
(* adds quantity * factor to total_emission; an active slot whose name is  *)
(* not in the carbon reference adds 0 to total_emission and still adds its *)
(* resolved cost; a name in neither table adds 0 to both; the loop goes on *)
(* in every case.                                                          *)
C4_IndependentResolution ==
  [][ (InLoopBody /\ Active(CurrentSlot)) =>
        /\ (CurrentSlot.cost = NA /\ ~HasReferencePrice(CurrentSlot)) =>
             /\ total_cost' = total_cost
             /\ total_emission' =
                  total_emission + Val(CurrentSlot.qty) * Factor(CurrentSlot)
        /\ Trimmed(Val(CurrentSlot.ing)) \notin DOMAIN carbon_data =>
             /\ total_emission' = total_emission
             /\ total_cost' = total_cost + CostShare(CurrentSlot)
        /\ pc' = "slot" /\ i' = i + 1 ]_vars

(* a row whose three slots were: in the carbon table only, costed only,    *)
(* in neither table                                                        *)
C4_Witness ==
  /\ pc = "slot" /\ i = 4
  /\ LET s == df[row_idx].slots IN
       /\ Active(s[1]) /\ Active(s[2]) /\ Active(s[3])
       /\ Factor(s[1]) > 0 /\ s[1].cost = NA /\ ~HasReferencePrice(s[1])
       /\ Factor(s[2]) = 0 /\ s[2].cost # NA
       /\ Factor(s[3]) = 0 /\ s[3].cost = NA /\ ~HasReferencePrice(s[3])
       /\ total_emission = Val(s[1].qty) * Factor(s[1]) /\ total_emission > 0
       /\ total_cost = Val(s[2].qty) * Val(s[2].cost) /\ total_cost > 0

----------------------------------------------------------------------------
(* C5: a dish carries LOW_MARGIN iff its rounded margin_pct is strictly    *)
(* below 60 and HIGH_CO2 iff its rounded estimated_co2e_kg is strictly     *)
(* above 3; a margin of exactly 60 gives no LOW_MARGIN and exactly 3 kg    *)
(* gives no HIGH_CO2; deciding one flag never sets or clears the other.    *)
Range(s) == {s[j] : j \in DOMAIN s}
HasFlag(col, k, flag) == flag \in Range(col[k])

Below60(margin) == margin.k = "-inf" \/ (margin.k = "fin" /\ margin.v < 6000)

C5_FlagThresholds ==
  /\ [](pc = "done" =>
         \A k \in 1..Len(df) :
           /\ HasFlag(colFlag, k, LOW_MARGIN) <=> Below60(colMargin[k])
           /\ HasFlag(colFlag, k, HIGH_CO2) <=> colCo2[k] > 300
           /\ colMargin[k] = Fin(6000) => ~HasFlag(colFlag, k, LOW_MARGIN)
           /\ colCo2[k] = 300 => ~HasFlag(colFlag, k, HIGH_CO2))
  /\ [][ /\ pc = "flag_margin" =>
              \A k \in 1..Len(df) :
                HasFlag(colFlag', k, HIGH_CO2) <=> HasFlag(colFlag, k, HIGH_CO2)
         /\ pc = "flag_co2" =>
              \A k \in 1..Len(df) :
                HasFlag(colFlag', k, LOW_MARGIN) <=> HasFlag(colFlag, k, LOW_MARGIN)
       ]_vars

(* a dish with margin exactly 60 and more than 3 kg: HIGH_CO2 alone *)
C5_Witness ==
  /\ pc = "done"
  /\ \E k \in 1..Len(df) :
       /\ colMargin[k] = Fin(6000)
       /\ colCo2[k] > 300
       /\ colFlag[k] = <<HIGH_CO2>>

(* the other combinations: exactly 3 kg with a low margin gives LOW_MARGIN *)
(* alone; both flags; no flag                                              *)
C5_WitnessLowOnly ==
  pc = "done" /\ \E k \in 1..Len(df) :
    colCo2[k] = 300 /\ colMargin[k].k = "fin" /\ colFlag[k] = <<LOW_MARGIN>>
C5_WitnessBoth ==
  pc = "done" /\ \E k \in 1..Len(df) : colFlag[k] = <<LOW_MARGIN, HIGH_CO2>>
C5_WitnessNone ==
  pc = "done" /\ \E k \in 1..Len(df) :
    colFlag[k] = <<>> /\ colCo2[k] > 0 /\ colMargin[k].k = "fin"

----------------------------------------------------------------------------
(* C6: the core never aborts the batch.  Until the last statement has run  *)
(* a next statement can always run, and at the end every row has every     *)
(* result; a selling price of 0 gives a non-finite margin_pct and a profit *)
(* of 0 gives a non-finite co2e_per_profit, as values, and the rows after  *)
(* such a row are computed all the same.                                   *)
Complete(col) == DOMAIN col = 1..Len(df)

C6_NeverAborts ==
  /\ pc \notin {"done", "idle"} => ENABLED Next
  /\ pc = "done" =>
       /\ Len(results) = Len(df)
       /\ Complete(colCo2) /\ Complete(colCost) /\ Complete(colMargin)
       /\ Complete(colProfit) /\ Complete(colCo2pp) /\ Complete(colFlag)
       /\ \A k \in 1..Len(df) :
            /\ df[k].sp = 0 => colMargin[k].k \in {"inf", "-inf", "nan"}
            /\ colProfit[k] = 0 => colCo2pp[k].k \in {"inf", "-inf", "nan"}
            /\ df[k].sp # 0 => colMargin[k].k = "fin"
            /\ colProfit[k] # 0 => colCo2pp[k].k = "fin"

(* a first row with selling price 0 and a cost, then a row with profit 0,  *)
(* both with all their results                                             *)
C6_Witness ==
  /\ pc = "done" /\ Len(df) = 2
  /\ df[1].sp = 0 /\ colCost[1] > 0 /\ colMargin[1] = NegInf
  /\ colProfit[2] = 0 /\ colCo2[2] > 0 /\ colCo2pp[2] = PosInf
  /\ colMargin[2] = Fin(0) /\ colFlag[2] = <<LOW_MARGIN>>

----------------------------------------------------------------------------
(* C7: when the price file is supplied but malformed (it cannot be read,   *)
(* or a column is missing) an error is reported and the price map stays    *)
(* empty; the estimation still runs to its end and resolves costs from the *)
(* explicit per-row costs only.  Without a price file the map is empty too.*)
Malformed(file) ==
  file # NoFile /\ (~Val(file).readable \/ Val(file).Ingredient = NA
                                        \/ Val(file).Price = NA)

ExplicitShare(slot) ==
  IF Active(slot) /\ slot.cost # NA THEN Val(slot.qty) * Val(slot.cost) ELSE 0
ExplicitCost(row) ==
  ExplicitShare(row.slots[1]) + ExplicitShare(row.slots[2]) + ExplicitShare(row.slots[3])

C7_MalformedPriceFile ==
  /\ price_file = NoFile => DOMAIN ingredient_price_map = {}
  /\ Malformed(price_file) =>
       /\ DOMAIN ingredient_price_map = {}
       /\ pc # "price" => price_msg = "error"
       /\ (dish_file # NoFile /\ pc # "done") => ENABLED Next
       /\ pc = "done" =>
            /\ Complete(colCost) /\ Complete(colFlag)
            /\ \A k \in 1..Len(df) : IsRounding2(colCost[k], ExplicitCost(df[k]))

(* the price column is missing although the ingredient column names       *)
(* Pasta; a dish with a Pasta slot without explicit cost and a slot with   *)
(* one has been estimated to its end                                       *)
C7_Witness ==
  /\ price_file = Some(NoPriceColumn) /\ price_msg = "error"
  /\ pc = "done"
  /\ \E k \in 1..Len(df) :
       /\ df[k].slots[1] = Slot(Some(Pasta), Some(200), NA)
       /\ df[k].slots[2] = Slot(Some(Seitan), Some(130), Some(125))
       /\ colCost[k] = 162

----------------------------------------------------------------------------
(* C8: profit + total_cost equals selling_price up to rounding to 2        *)
(* decimals, profit being selling_price minus the already rounded          *)
(* total_cost, rounded to 2 decimals; margin_pct and co2e_per_profit come  *)
(* from that same rounded total_cost, the rounded estimated_co2e_kg and    *)
(* the rounded profit.                                                     *)
IsQuotientRounding(q, n, d, scale) ==
  IF d = 0 THEN q.k # "fin"
  ELSE q.k = "fin" /\ 2 * Abs(q.v * d - n * scale) <= Abs(d)

C8_DerivedMetrics ==
  pc \in {"flag_init", "flag_margin", "flag_co2", "done"} =>
    \A k \in 1..Len(df) :
      LET sp == df[k].sp
          cost == results[k][2]
          co2 == results[k][1]
      IN /\ colCost[k] = cost /\ colCo2[k] = co2
         /\ Abs(10 * colProfit[k] + 10 * colCost[k] - sp) <= 5
         /\ IsQuotientRounding(colMargin[k], sp - 10 * cost, sp, 10000)
         /\ IsQuotientRounding(colCo2pp[k], co2, colProfit[k], 100)

(* a selling price with a third decimal: profit + total_cost differs from  *)
(* it by the rounding                                                      *)
C8_Witness ==
  /\ pc = "done"
  /\ \E k \in 1..Len(df) :
       /\ 10 * colProfit[k] + 10 * colCost[k] # df[k].sp
       /\ colCost[k] * 100 # SumCost(df[k], 3)
       /\ colCo2pp[k].k = "fin" /\ colCo2pp[k].v > 0
       /\ colMargin[k].k = "fin" /\ colMargin[k].v % 100 # 0

----------------------------------------------------------------------------
(* C9: monotonicity.  Of two dishes that differ only in the quantity of    *)
(* one slot, the one with the larger quantity has no smaller total_cost    *)
(* and no smaller estimated_co2e_kg, provided all factors and all resolved *)
(* costs per gram are non-negative; if the quantities are non-negative as  *)
(* well, total_cost is not negative.                                       *)
ResolvedCostsNonNegative(row) ==
  \A s \in 1..3 :
    Active(row.slots[s]) =>
      /\ row.slots[s].cost # NA => Val(row.slots[s].cost) >= 0
      /\ (row.slots[s].cost = NA /\ HasReferencePrice(row.slots[s]))
           => ReferencePrice(row.slots[s]) >= 0
FactorsNonNegative == \A name \in DOMAIN carbon_data : carbon_data[name] >= 0
QuantitiesNonNegative(row) ==
  \A s \in 1..3 : row.slots[s].qty # NA => Val(row.slots[s].qty) >= 0

(* row b is row a with the quantity of slot s increased *)
Increased(a, b, s) ==
  /\ a.slots[s].qty # NA /\ b.slots[s].qty # NA
  /\ Val(a.slots[s].qty) < Val(b.slots[s].qty)
  /\ b = [a EXCEPT !.slots[s].qty = b.slots[s].qty]

C9_Monotone ==
  \A a, b \in 1..Len(results) :
    /\ \A s \in 1..3 :
         (Increased(df[a], df[b], s) /\ FactorsNonNegative
            /\ ResolvedCostsNonNegative(df[a]))
           => /\ results[a][1] <= results[b][1]
              /\ results[a][2] <= results[b][2]
    /\ (QuantitiesNonNegative(df[a]) /\ ResolvedCostsNonNegative(df[a]))
         => results[a][2] >= 0

(* two dishes that differ in the quantity of a slot priced by the          *)
(* reference and known to the carbon table: both results grew              *)
C9_Witness ==
  /\ Len(results) = 2
  /\ \E s \in 1..3 :
       /\ Increased(df[1], df[2], s)
       /\ Active(df[1].slots[s]) /\ df[1].slots[s].cost = NA
  /\ ResolvedCostsNonNegative(df[1]) /\ QuantitiesNonNegative(df[1])
  /\ results[1][1] < results[2][1]
  /\ results[1][2] < results[2][2]

----------------------------------------------------------------------------
(* C10: every lookup of a slot's ingredient, in the carbon reference and   *)
(* in the price reference, uses the name with its leading and trailing     *)
(* blanks removed and needs an exact, case-sensitive match with the key as *)
(* stored: a padded name resolves as the trimmed name does, a name in      *)
(* another case or a key that is itself padded is unknown and adds 0.      *)
C10_TrimmedExactLookup ==
  [][ (InLoopBody /\ Active(CurrentSlot)) =>
        LET t == Trimmed(Val(CurrentSlot.ing))
            qty == Val(CurrentSlot.qty)
        IN /\ total_emission' = total_emission +
                qty * (IF \E key \in DOMAIN carbon_data : key = t
                       THEN carbon_data[t] ELSE 0)
           /\ CurrentSlot.cost = NA =>
                total_cost' = total_cost +
                  qty * (IF \E key \in DOMAIN ingredient_price_map : key = t
                         THEN ingredient_price_map[t] ELSE 0) ]_vars

(* " Pasta " resolved as "Pasta" in both tables, "pasta" added nothing,    *)
(* and " Bun" added its emission but no cost although " Bun" is a price    *)
(* key                                                                     *)
C10_Witness ==
  /\ pc = "slot" /\ i = 4
  /\ df[row_idx].slots = << Slot(Some(PastaPadded), Some(130), NA),
                            Slot(Some(PastaLower), Some(130), NA),
                            Slot(Some(BunPadded), Some(130), NA) >>
  /\ BunPadded \in DOMAIN ingredient_price_map
  /\ Pasta \in DOMAIN ingredient_price_map
  /\ total_emission = 130 * 11 + 130 * 12
  /\ total_cost = 130 * 100

====
